---- MODULE Spec2Model ----
(***************************************************************************)
(* A model of LightGBM's array-backed decision tree (src/src/io/tree.cpp): *)
(* leaf-wise growth by Tree::Split, the text format written by             *)
(* Tree::ToString and read back by Tree::Tree(const std::string&), the     *)
(* JSON export Tree::ToJSON / Tree::NodeToJSON, and the chunked score      *)
(* accumulation Tree::AddPredictionToScore.                                *)
(*                                                                         *)
(* float values are modelled by integers (every value used is printed and  *)
(* parsed exactly by the 6-significant-digit stream format); int and       *)
(* data_size_t values stay far from their 32-bit limits.                   *)
(***************************************************************************)
EXTENDS Integers, Sequences, FiniteSets, TLC

VARIABLES
  tree,     \* the Tree object: one record field per data member
  nsplits,  \* how many Split calls have been made on it
  before,   \* the Tree object as it was when the last call was made
  call,     \* the last member function invoked on it, with its arguments
  ret,      \* what that invocation returned (or the object it constructed)
  score,    \* the caller-owned score buffer, one slot per data row
  job,      \* the running AddPredictionToScore call, or its absence
  chunks,   \* the blocks handed to the lambda by Threading::For
  scored    \* rows some finished or running call has been asked to score

vars == <<tree, nsplits, before, call, ret, score, job, chunks, scored>>

scoreVars == <<score, job, chunks, scored>>

----------------------------------------------------------------------------
(* Bounds of the model. *)

\* largest max_leaves a tree is constructed with in Spec
MaxLeaves == 5
\* largest max_leaves a tree is constructed with in SpecText
MaxLeavesText == 3
\* call-stack frames available to the NodeToJSON recursion
MaxStackDepth == 7
\* number of rows of the dataset and slots of the score buffer
NumData == 3

----------------------------------------------------------------------------
(* Tree::Tree(int max_leaves) *)

\* ~x on a two's complement int
Compl(x) == -x - 1

\* std::vector<T>(n): n value-initialised elements, indexed from 0
Vector(n) == [i \in 0..(n - 1) |-> 0]

NewTree(max_leaves) ==
  [ max_leaves_         |-> max_leaves,
    num_leaves_         |-> 1,
    left_child_         |-> Vector(max_leaves - 1),
    right_child_        |-> Vector(max_leaves - 1),
    split_feature_      |-> Vector(max_leaves - 1),
    split_feature_real_ |-> Vector(max_leaves - 1),
    threshold_in_bin_   |-> Vector(max_leaves - 1),
    threshold_          |-> Vector(max_leaves - 1),
    decision_type_      |-> Vector(max_leaves - 1),
    split_gain_         |-> Vector(max_leaves - 1),
    leaf_parent_        |-> [Vector(max_leaves) EXCEPT ![0] = -1],
    leaf_value_         |-> Vector(max_leaves),
    leaf_count_         |-> Vector(max_leaves),
    internal_value_     |-> Vector(max_leaves - 1),
    internal_count_     |-> Vector(max_leaves - 1),
    leaf_depth_         |-> [Vector(max_leaves) EXCEPT ![0] = 1] ]

----------------------------------------------------------------------------
(* Tree::Split *)

\* The argument tuples the training loop passes besides the leaf id.
SplitArgs ==
  { [ feature |-> 0, bin_type |-> "NumericalBin", threshold_bin |-> 1,
      real_feature |-> 2, threshold_float |-> 5, left_value |-> 7,
      right_value |-> -3, left_cnt |-> 2, right_cnt |-> 1, gain |-> 4 ],
    [ feature |-> 1, bin_type |-> "CategoricalBin", threshold_bin |-> 2,
      real_feature |-> 3, threshold_float |-> 6, left_value |-> -8,
      right_value |-> 9, left_cnt |-> 1, right_cnt |-> 1, gain |-> 12 ] }

\* the ids that are leaves of t
Leaves(t) == 0..(t.num_leaves_ - 1)

\* the indices of the internal nodes of t
Internals(t) == 0..(t.num_leaves_ - 2)

NewNodeIdx(t) == t.num_leaves_ - 1

\* left_child_ after "update parent info" and "add two new leaves"
SplitLeftChild(t, leaf) ==
  LET parent == t.leaf_parent_[leaf]
      patched == IF parent >= 0 /\ t.left_child_[parent] = Compl(leaf)
                 THEN [t.left_child_ EXCEPT ![parent] = NewNodeIdx(t)]
                 ELSE t.left_child_
  IN  [patched EXCEPT ![NewNodeIdx(t)] = Compl(leaf)]

\* right_child_ after "update parent info" and "add two new leaves"
SplitRightChildBad(t, leaf) ==
  [t.right_child_ EXCEPT ![NewNodeIdx(t)] = Compl(t.num_leaves_)]

SplitRightChild(t, leaf) ==
  LET parent == t.leaf_parent_[leaf]
      patched == IF parent >= 0 /\ t.left_child_[parent] # Compl(leaf)
                 THEN [t.right_child_ EXCEPT ![parent] = NewNodeIdx(t)]
                 ELSE t.right_child_
  IN  [patched EXCEPT ![NewNodeIdx(t)] = Compl(t.num_leaves_)]

SplitDecisionType(bin_type) == IF bin_type = "NumericalBin" THEN 0 ELSE 1

\* leaf_parent_ after "update new leaves"
SplitLeafParent(t, leaf) ==
  [t.leaf_parent_ EXCEPT ![leaf] = NewNodeIdx(t),
                         ![t.num_leaves_] = NewNodeIdx(t)]

\* internal_value_: "save current leaf value to internal node before change"
SplitInternalValue(t, leaf) ==
  [t.internal_value_ EXCEPT ![NewNodeIdx(t)] = t.leaf_value_[leaf]]

SplitInternalCountBad(t, leaf, a) ==
  [t.internal_count_ EXCEPT ![NewNodeIdx(t)] = a.left_cnt]

SplitInternalCount(t, leaf, a) ==
  [t.internal_count_ EXCEPT ![NewNodeIdx(t)] = a.left_cnt + a.right_cnt]

SplitLeafValueBad(t, leaf, a) ==
  [t.leaf_value_ EXCEPT ![NewNodeIdx(t)] = a.left_value,
                        ![t.num_leaves_] = a.right_value]

SplitLeafValue(t, leaf, a) ==
  [t.leaf_value_ EXCEPT ![leaf] = a.left_value,
                        ![t.num_leaves_] = a.right_value]

SplitLeafCount(t, leaf, a) ==
  [t.leaf_count_ EXCEPT ![leaf] = a.left_cnt,
                        ![t.num_leaves_] = a.right_cnt]

\* leaf_depth_[num_leaves_] = leaf_depth_[leaf] + 1; leaf_depth_[leaf]++
SplitLeafDepthBad(t, leaf) ==
  LET first == [t.leaf_depth_ EXCEPT ![leaf] = @ + 1]
  IN  [first EXCEPT ![t.num_leaves_] = first[leaf] + 1]

SplitLeafDepth(t, leaf) ==
  LET first == [t.leaf_depth_ EXCEPT ![t.num_leaves_] = t.leaf_depth_[leaf] + 1]
  IN  [first EXCEPT ![leaf] = @ + 1]

\* ++num_leaves_
SplitNumLeavesBad(t) == t.num_leaves_

SplitNumLeaves(t) == t.num_leaves_ + 1

\* the tree after Split(leaf, a.feature, a.bin_type, ...)
SplitTree(t, leaf, a) ==
  [ t EXCEPT
      !.left_child_         = SplitLeftChild(t, leaf),
      !.right_child_        = SplitRightChild(t, leaf),
      !.split_feature_      = [@ EXCEPT ![NewNodeIdx(t)] = a.feature],
      !.split_feature_real_ = [@ EXCEPT ![NewNodeIdx(t)] = a.real_feature],
      !.threshold_in_bin_   = [@ EXCEPT ![NewNodeIdx(t)] = a.threshold_bin],
      !.threshold_          = [@ EXCEPT ![NewNodeIdx(t)] = a.threshold_float],
      !.decision_type_      = [@ EXCEPT ![NewNodeIdx(t)] = SplitDecisionType(a.bin_type)],
      !.split_gain_         = [@ EXCEPT ![NewNodeIdx(t)] = a.gain],
      !.leaf_parent_        = SplitLeafParent(t, leaf),
      !.internal_value_     = SplitInternalValue(t, leaf),
      !.internal_count_     = SplitInternalCount(t, leaf, a),
      !.leaf_value_         = SplitLeafValue(t, leaf, a),
      !.leaf_count_         = SplitLeafCount(t, leaf, a),
      !.leaf_depth_         = SplitLeafDepth(t, leaf),
      !.num_leaves_         = SplitNumLeaves(t) ]

\* return num_leaves_ - 1, read after the increment
SplitReturn(t, leaf, a) == SplitTree(t, leaf, a).num_leaves_ - 1

\* A valid call: leaf is a current leaf and the capacity is not exceeded
\* (the caller's obligation; Split itself checks nothing).
Split(leaf, a) ==
  /\ job.overload = "none"
  /\ leaf \in Leaves(tree)
  /\ tree.num_leaves_ < tree.max_leaves_
  /\ tree' = SplitTree(tree, leaf, a)
  /\ nsplits' = nsplits + 1
  /\ before' = tree
  /\ call' = [op |-> "Split", leaf |-> leaf, args |-> a]
  /\ ret' = SplitReturn(tree, leaf, a)
  /\ UNCHANGED scoreVars

----------------------------------------------------------------------------
(* Tree::ToJSON and Tree::NodeToJSON *)

\* What a read past the end of a vector can do: fault, or yield whatever
\* lies there (-1 decodes to leaf 0, 0 to internal node 0).
OobReads ==
  { [crash |-> TRUE, value |-> 0],
    [crash |-> FALSE, value |-> -1],
    [crash |-> FALSE, value |-> 0] }

\* arr[index], with oob deciding what an index outside the vector gives
ReadAt(arr, index, oob) ==
  IF index \in DOMAIN arr THEN arr[index] ELSE oob.value

GetDecisionTypeName(type) == IF type = 0 THEN "no_greater" ELSE "is"

\* index = ~index in the leaf branch
LeafOfRefBad(index) == -index

LeafOfRef(index) == Compl(index)

RECURSIVE NodeToJSON(_, _, _, _)
NodeToJSON(t, index, oob, depth) ==
  IF depth = 0
    THEN [kind |-> "stack_overflow"]
  ELSE IF index >= 0
    THEN IF index \notin DOMAIN t.split_feature_real_ /\ oob.crash
           THEN [kind |-> "crash"]
           ELSE [ kind           |-> "node",
                  split_index    |-> index,
                  split_feature  |-> ReadAt(t.split_feature_real_, index, oob),
                  split_gain     |-> ReadAt(t.split_gain_, index, oob),
                  threshold      |-> ReadAt(t.threshold_, index, oob),
                  decision_type  |-> GetDecisionTypeName(
                                       ReadAt(t.decision_type_, index, oob)),
                  internal_value |-> ReadAt(t.internal_value_, index, oob),
                  internal_count |-> ReadAt(t.internal_count_, index, oob),
                  left_child     |-> NodeToJSON(t,
                                       ReadAt(t.left_child_, index, oob),
                                       oob, depth - 1),
                  right_child    |-> NodeToJSON(t,
                                       ReadAt(t.right_child_, index, oob),
                                       oob, depth - 1) ]
    ELSE IF LeafOfRef(index) \notin DOMAIN t.leaf_parent_ /\ oob.crash
           THEN [kind |-> "crash"]
           ELSE [ kind        |-> "leaf",
                  leaf_index  |-> LeafOfRef(index),
                  leaf_parent |-> ReadAt(t.leaf_parent_, LeafOfRef(index), oob),
                  leaf_value  |-> ReadAt(t.leaf_value_, LeafOfRef(index), oob),
                  leaf_count  |-> ReadAt(t.leaf_count_, LeafOfRef(index), oob) ]

\* "tree_structure": NodeToJSON(0), whatever num_leaves_ is
ToJSONRoot(t) == 0

ToJSONValue(t, oob) ==
  [ num_leaves     |-> t.num_leaves_,
    tree_structure |-> NodeToJSON(t, ToJSONRoot(t), oob, MaxStackDepth) ]

ToJSON ==
  /\ job.overload = "none"
  /\ \E oob \in OobReads : ret' = ToJSONValue(tree, oob)
  /\ call' = [op |-> "ToJSON"]
  /\ before' = tree
  /\ UNCHANGED <<tree, nsplits, scoreVars>>

\* the split_index of every internal-node object of obj, in output order
RECURSIVE SplitIndexSeq(_)
SplitIndexSeq(obj) ==
  IF obj.kind = "node"
    THEN <<obj.split_index>> \o SplitIndexSeq(obj.left_child)
                             \o SplitIndexSeq(obj.right_child)
    ELSE <<>>

\* the leaf_index of every leaf object of obj, in output order
RECURSIVE LeafIndexSeq(_)
LeafIndexSeq(obj) ==
  IF obj.kind = "node"
    THEN LeafIndexSeq(obj.left_child) \o LeafIndexSeq(obj.right_child)
  ELSE IF obj.kind = "leaf" THEN <<obj.leaf_index>>
  ELSE <<>>

\* the recursion returned everywhere: no frame ran out of stack or faulted
RECURSIVE Completed(_)
Completed(obj) ==
  IF obj.kind = "node"
    THEN Completed(obj.left_child) /\ Completed(obj.right_child)
    ELSE obj.kind = "leaf"

Range(s) == {s[i] : i \in DOMAIN s}

----------------------------------------------------------------------------
(* Text: a std::string is the sequence of its characters.  The helpers of  *)
(* LightGBM/utils/common.h that the tree's text format goes through.       *)

\* the text format's field names, spelled out
Key ==
  "num_leaves"    :> <<"n", "u", "m", "_", "l", "e", "a", "v", "e", "s">> @@
  "split_feature" :> <<"s", "p", "l", "i", "t", "_", "f", "e", "a", "t", "u", "r", "e">> @@
  "split_gain"    :> <<"s", "p", "l", "i", "t", "_", "g", "a", "i", "n">> @@
  "threshold"     :> <<"t", "h", "r", "e", "s", "h", "o", "l", "d">> @@
  "decision_type" :> <<"d", "e", "c", "i", "s", "i", "o", "n", "_", "t", "y", "p", "e">> @@
  "left_child"    :> <<"l", "e", "f", "t", "_", "c", "h", "i", "l", "d">> @@
  "right_child"   :> <<"r", "i", "g", "h", "t", "_", "c", "h", "i", "l", "d">> @@
  "leaf_parent"   :> <<"l", "e", "a", "f", "_", "p", "a", "r", "e", "n", "t">> @@
  "leaf_value"    :> <<"l", "e", "a", "f", "_", "v", "a", "l", "u", "e">> @@
  "leaf_count"    :> <<"l", "e", "a", "f", "_", "c", "o", "u", "n", "t">> @@
  "internal_value" :> <<"i", "n", "t", "e", "r", "n", "a", "l", "_", "v", "a", "l", "u", "e">> @@
  "internal_count" :> <<"i", "n", "t", "e", "r", "n", "a", "l", "_", "c", "o", "u", "n", "t">>

Concat(ss) ==
  LET F[i \in 0..Len(ss)] == IF i = 0 THEN <<>> ELSE F[i - 1] \o ss[i]
  IN  F[Len(ss)]

\* Common::Split(c_str, delimiter): the pieces between delimiters, empty
\* pieces included; a string without the delimiter is one piece
StrSplit(str, delimiter) ==
  LET found == {i \in 1..Len(str) : str[i] = delimiter}
      n == Cardinality(found)
      pos(k) == IF k = 0 THEN 0
                ELSE IF k = n + 1 THEN Len(str) + 1
                ELSE CHOOSE p \in found :
                       Cardinality({q \in found : q <= p}) = k
  IN  [k \in 1..(n + 1) |-> SubSeq(str, pos(k - 1) + 1, pos(k) - 1)]

Whitespace == {" ", "\f", "\n", "\r", "\t"}

\* Common::Trim: whitespace erased from the end, then from the start
RECURSIVE TrimRight(_)
TrimRight(str) ==
  IF Len(str) > 0 /\ str[Len(str)] \in Whitespace
    THEN TrimRight(SubSeq(str, 1, Len(str) - 1))
    ELSE str

RECURSIVE TrimLeft(_)
TrimLeft(str) ==
  IF Len(str) > 0 /\ str[1] \in Whitespace THEN TrimLeft(Tail(str)) ELSE str

Trim(str) == TrimLeft(TrimRight(str))

DigitChars == <<"0", "1", "2", "3", "4", "5", "6", "7", "8", "9">>

IsDigit(c) == \E d \in 1..Len(DigitChars) : DigitChars[d] = c

DigitValue(c) == (CHOOSE d \in 1..Len(DigitChars) : DigitChars[d] = c) - 1

\* operator<< of a number: its decimal digits, after '-' when negative
RECURSIVE Digits(_)
Digits(n) ==
  IF n < 10 THEN <<DigitChars[n + 1]>>
  ELSE Digits(n \div 10) \o <<DigitChars[(n % 10) + 1]>>

NumberToString(v) == IF v < 0 THEN <<"-">> \o Digits(-v) ELSE Digits(v)

\* Common::Atoi, std::stol, std::stod on a number written as above: an
\* optional sign, then digits up to the first character that is none
RECURSIVE DigitsValue(_, _, _)
DigitsValue(str, i, acc) ==
  IF i <= Len(str) /\ IsDigit(str[i])
    THEN DigitsValue(str, i + 1, 10 * acc + DigitValue(str[i]))
    ELSE acc

StringToNumber(str) ==
  IF Len(str) > 0 /\ str[1] = "-" THEN -DigitsValue(str, 2, 0)
  ELSE DigitsValue(str, 1, 0)

\* Common::ArrayToString(arr, n, delimiter): the first min(n, size)
\* elements joined by the delimiter; the empty string when there are none
ArrayToString(arr, n, delimiter) ==
  LET size == Cardinality(DOMAIN arr)
      len == IF n < size THEN n ELSE size
      F[i \in 0..len] ==
        IF i = 0 THEN <<>>
        ELSE IF i = 1 THEN NumberToString(arr[0])
        ELSE F[i - 1] \o <<delimiter>> \o NumberToString(arr[i - 1])
  IN  F[len]

\* Common::StringToArray<T>(str, delimiter, n): the n numbers of str, or a
\* fatal error when str does not hold n pieces
StringToArray(str, delimiter, n) ==
  LET strs == StrSplit(str, delimiter)
  IN  IF Len(strs) # n
        THEN [fatal |-> TRUE, value |-> <<>>]
        ELSE [fatal |-> FALSE,
              value |-> [i \in 0..(n - 1) |-> StringToNumber(strs[i + 1])]]

----------------------------------------------------------------------------
(* Tree::ToString *)

\* one "key=values" line, ended by std::endl
ToStringLine(k, arr, n) == Key[k] \o <<"=">> \o ArrayToString(arr, n, " ") \o <<"\n">>

TreeToString(t) ==
  Concat(<<
    Key["num_leaves"] \o <<"=">> \o NumberToString(t.num_leaves_) \o <<"\n">>,
    ToStringLine("split_feature", t.split_feature_real_, t.num_leaves_ - 1),
    ToStringLine("split_gain", t.split_gain_, t.num_leaves_ - 1),
    ToStringLine("threshold", t.threshold_, t.num_leaves_ - 1),
    ToStringLine("decision_type", t.decision_type_, t.num_leaves_ - 1),
    ToStringLine("left_child", t.left_child_, t.num_leaves_ - 1),
    ToStringLine("right_child", t.right_child_, t.num_leaves_ - 1),
    ToStringLine("leaf_parent", t.leaf_parent_, t.num_leaves_),
    ToStringLine("leaf_value", t.leaf_value_, t.num_leaves_),
    ToStringLine("leaf_count", t.leaf_count_, t.num_leaves_),
    ToStringLine("internal_value", t.internal_value_, t.num_leaves_ - 1),
    ToStringLine("internal_count", t.internal_count_, t.num_leaves_ - 1),
    <<"\n">> >>)

ToStringCall ==
  /\ job.overload = "none"
  /\ ret' = TreeToString(tree)
  /\ call' = [op |-> "ToString"]
  /\ before' = tree
  /\ UNCHANGED <<tree, nsplits, scoreVars>>

----------------------------------------------------------------------------
(* Tree::Tree(const std::string& str) *)

\* a line enters key_vals when '=' cuts it in two and both halves are
\* non-empty once trimmed
LineIsKeyVal(tmp_strs) ==
  /\ Len(tmp_strs) = 2
  /\ Len(Trim(tmp_strs[1])) > 0
  /\ Len(Trim(tmp_strs[2])) > 0

\* key_vals after the loop over the lines; a later line replaces an earlier
\* one with the same key
KeyVals(lines) ==
  LET tmp_strs == [i \in DOMAIN lines |-> StrSplit(lines[i], "=")]
      taken == {i \in DOMAIN lines : LineIsKeyVal(tmp_strs[i])}
      key == [i \in taken |-> Trim(tmp_strs[i][1])]
      val == [i \in taken |-> Trim(tmp_strs[i][Len(tmp_strs[i])])]
      last(k) == CHOOSE i \in taken :
                   key[i] = k /\ \A j \in taken : key[j] = k => j <= i
  IN  [k \in {key[i] : i \in taken} |-> val[last(k)]]

\* the keys whose key_vals.count(...) the constructor tests
RequiredKeysBad ==
  { "num_leaves", "split_feature", "split_gain",
    "left_child", "right_child", "leaf_parent", "leaf_value",
    "internal_value", "internal_count", "leaf_count", "decision_type" }

RequiredKeys ==
  { "num_leaves", "split_feature", "split_gain", "threshold",
    "left_child", "right_child", "leaf_parent", "leaf_value",
    "internal_value", "internal_count", "leaf_count", "decision_type" }

\* the arrays in the order the constructor parses them, each with the
\* member it fills and its length given num_leaves_
ParseOrder(num_leaves) ==
  << <<"left_child", num_leaves - 1>>,
     <<"right_child", num_leaves - 1>>,
     <<"split_feature", num_leaves - 1>>,
     <<"threshold", num_leaves - 1>>,
     <<"split_gain", num_leaves - 1>>,
     <<"internal_count", num_leaves - 1>>,
     <<"internal_value", num_leaves - 1>>,
     <<"decision_type", num_leaves - 1>>,
     <<"leaf_count", num_leaves>>,
     <<"leaf_parent", num_leaves>>,
     <<"leaf_value", num_leaves>> >>

\* key_vals[key]: operator[] gives the empty string for an absent key
Lookup(key_vals, k) ==
  IF Key[k] \in DOMAIN key_vals THEN key_vals[Key[k]] ELSE <<>>

TreeFromString(str) ==
  LET lines == StrSplit(str, "\n")
      key_vals == KeyVals(lines)
  IN  IF \E k \in RequiredKeys : Key[k] \notin DOMAIN key_vals
        THEN [ status |-> "fatal",
               message |-> "Tree model string format error",
               parsed |-> <<>> ]
        ELSE
          LET num_leaves == StringToNumber(Lookup(key_vals, "num_leaves"))
              order == ParseOrder(num_leaves)
              arr == [i \in DOMAIN order |->
                        StringToArray(Lookup(key_vals, order[i][1]), " ",
                                      order[i][2])]
              bad == {i \in DOMAIN order : arr[i].fatal}
              of(k) == arr[CHOOSE i \in DOMAIN order : order[i][1] = k].value
          IN  IF bad # {}
                THEN LET first == CHOOSE i \in bad : \A j \in bad : i <= j
                     IN  [ status |-> "fatal",
                           message |-> "StringToArray error",
                           parsed |-> [i \in 1..(first - 1) |-> order[i][1]] ]
                ELSE [ status              |-> "ok",
                       num_leaves_         |-> num_leaves,
                       left_child_         |-> of("left_child"),
                       right_child_        |-> of("right_child"),
                       split_feature_real_ |-> of("split_feature"),
                       threshold_          |-> of("threshold"),
                       split_gain_         |-> of("split_gain"),
                       internal_count_     |-> of("internal_count"),
                       internal_value_     |-> of("internal_value"),
                       decision_type_      |-> of("decision_type"),
                       leaf_count_         |-> of("leaf_count"),
                       leaf_parent_        |-> of("leaf_parent"),
                       leaf_value_         |-> of("leaf_value") ]

\* The texts handed to the constructor: what a ToString call returned, with
\* at most one of its lines removed and at most one line put in that is no
\* key=value line.
NoLine == <<"\n">>

ExtraLines ==
  { <<"x", "y">>,
    <<" ", "=", "7">>,
    Key["threshold"] \o <<"=", " ">>,
    <<"=">> }

WithoutLine(str, k) ==
  LET lines == StrSplit(str, "\n")
      keep == SelectSeq(lines,
                LAMBDA l : ~(Len(l) > Len(Key[k])
                             /\ SubSeq(l, 1, Len(Key[k]) + 1) = Key[k] \o <<"=">>))
      F[i \in 0..Len(keep)] ==
        IF i = 0 THEN <<>>
        ELSE IF i = 1 THEN keep[1]
        ELSE F[i - 1] \o <<"\n">> \o keep[i]
  IN  F[Len(keep)]

WithLine(str, line, atEnd) ==
  IF atEnd THEN str \o line \o <<"\n">> ELSE line \o <<"\n">> \o str

InputText(str, drop, extra, atEnd) ==
  LET dropped == IF drop = "none" THEN str ELSE WithoutLine(str, drop)
  IN  IF extra = NoLine THEN dropped ELSE WithLine(dropped, extra, atEnd)

FromString(drop, extra, atEnd) ==
  /\ job.overload = "none"
  /\ call.op = "ToString"
  /\ extra = NoLine => atEnd
  /\ LET str == InputText(ret, drop, extra, atEnd)
     IN  /\ ret' = TreeFromString(str)
         /\ call' = [ op |-> "Tree(str)", str |-> str, drop |-> drop,
                      extra |-> extra, atEnd |-> atEnd ]
  /\ before' = tree
  /\ UNCHANGED <<tree, nsplits, scoreVars>>

----------------------------------------------------------------------------
(* Tree::GetLeaf over a binned dataset, and Tree::AddPredictionToScore.    *)

Rows == 0..(NumData - 1)

\* Dataset: the bin of feature f in row r, as the row's BinIterator gives it
BinAt(f, r) == IF f = 0 THEN r % 3 ELSE (2 * r) % 3

\* the score buffer the caller passes in
InitialScore(r) == 10 * (r + 1)

\* no AddPredictionToScore call is running
NoJob == [overload |-> "none", num_data |-> 0, used_data_indices |-> <<>>]

InitScoreVars ==
  /\ score = [r \in Rows |-> InitialScore(r)]
  /\ job = NoJob
  /\ chunks = <<>>
  /\ scored = {}

\* inner_decision_funs[type](fval, threshold): TRUE routes left
InnerDecision(type, fval, threshold) ==
  IF type = 0 THEN fval <= threshold ELSE fval # threshold

\* GetLeaf(iterators, data_idx): from the root down to a leaf reference
RECURSIVE Descend(_, _, _)
Descend(t, node, r) ==
  IF node < 0 THEN Compl(node)
  ELSE IF InnerDecision(t.decision_type_[node],
                        BinAt(t.split_feature_[node], r),
                        t.threshold_in_bin_[node])
    THEN Descend(t, t.left_child_[node], r)
    ELSE Descend(t, t.right_child_[node], r)

GetLeaf(t, r) == IF t.num_leaves_ = 1 THEN 0 ELSE Descend(t, 0, r)

\* Threading::For(0, num_data, inner_fun): the blocks [start, end) that the
\* cut points make of [0, num_data), each run by a thread of its own
Blocks(num_data, cuts) ==
  LET marks == {0, num_data} \cup cuts
      at(k) == CHOOSE x \in marks : Cardinality({y \in marks : y < x}) = k - 1
  IN  [k \in 1..(Cardinality(marks) - 1) |->
         [start |-> at(k), end |-> at(k + 1), i |-> at(k), pc |-> "load", tmp |-> 0]]

\* the score slot the loop's i-th iteration adds to: score[i] in the
\* overload without indices, score[used_data_indices[i]] in the other
ScoreSlotBad(j, i) == i

ScoreSlot(j, i) ==
  IF j.overload = "all" THEN i ELSE j.used_data_indices[i]

\* the value the i-th iteration adds
ScoreTerm(t, j, i) == t.leaf_value_[GetLeaf(t, ScoreSlot(j, i))]

\* AddPredictionToScore(data, num_data, score).  Over a run the caller asks
\* for each row at most once: a later call scores rows no earlier call did.
AddPredictionToScoreAll(num_data, cuts) ==
  /\ job.overload = "none"
  /\ (0..(num_data - 1)) \cap scored = {}
  /\ job' = [overload |-> "all", num_data |-> num_data,
             used_data_indices |-> <<>>]
  /\ chunks' = Blocks(num_data, cuts)
  /\ scored' = scored \cup 0..(num_data - 1)
  /\ call' = [op |-> "AddPredictionToScore"]
  /\ before' = tree
  /\ UNCHANGED <<tree, nsplits, ret, score>>

\* AddPredictionToScore(data, used_data_indices, num_data, score), the
\* indices pairwise distinct
AddPredictionToScoreUsed(used, cuts) ==
  /\ job.overload = "none"
  /\ \A a, b \in DOMAIN used : a # b => used[a] # used[b]
  /\ {used[a] : a \in DOMAIN used} \cap scored = {}
  /\ cuts \subseteq DOMAIN used \ {0}
  /\ job' = [overload |-> "used", num_data |-> Cardinality(DOMAIN used),
             used_data_indices |-> used]
  /\ chunks' = Blocks(Cardinality(DOMAIN used), cuts)
  /\ scored' = scored \cup {used[a] : a \in DOMAIN used}
  /\ call' = [op |-> "AddPredictionToScore"]
  /\ before' = tree
  /\ UNCHANGED <<tree, nsplits, ret, score>>

\* score[...] += ...: the read of the slot
ChunkLoad(c) ==
  /\ job.overload # "none"
  /\ c \in DOMAIN chunks
  /\ chunks[c].pc = "load"
  /\ chunks' = [chunks EXCEPT ![c].tmp = score[ScoreSlot(job, chunks[c].i)],
                              ![c].pc = "store"]
  /\ UNCHANGED <<tree, nsplits, before, call, ret, score, job, scored>>

\* score[...] += ...: the write of the sum, and ++i
ChunkStore(c) ==
  /\ job.overload # "none"
  /\ c \in DOMAIN chunks
  /\ chunks[c].pc = "store"
  /\ score' = [score EXCEPT ![ScoreSlot(job, chunks[c].i)] =
                 chunks[c].tmp + ScoreTerm(tree, job, chunks[c].i)]
  /\ chunks' = [chunks EXCEPT
                  ![c].i = @ + 1,
                  ![c].pc = IF chunks[c].i + 1 < chunks[c].end
                              THEN "load" ELSE "done"]
  /\ UNCHANGED <<tree, nsplits, before, call, ret, job, scored>>

\* Threading::For returns once every block has run
ScoreReturn ==
  /\ job.overload # "none"
  /\ \A c \in DOMAIN chunks : chunks[c].pc = "done"
  /\ job' = NoJob
  /\ chunks' = <<>>
  /\ UNCHANGED <<tree, nsplits, before, call, ret, score, scored>>

----------------------------------------------------------------------------
(* The specifications: growth with JSON export, growth with the text       *)
(* format, and batch scoring of a grown tree.                              *)

Init ==
  /\ \E m \in 1..MaxLeaves : tree = NewTree(m)
  /\ nsplits = 0
  /\ before = tree
  /\ call = [op |-> "Tree"]
  /\ ret = 0
  /\ InitScoreVars

Next ==
  \/ \E leaf \in 0..(MaxLeaves - 1) : \E a \in SplitArgs : Split(leaf, a)
  \/ ToJSON

Spec == Init /\ [][Next]_vars

InitText ==
  /\ \E m \in 1..MaxLeavesText : tree = NewTree(m)
  /\ nsplits = 0
  /\ before = tree
  /\ call = [op |-> "Tree"]
  /\ ret = 0
  /\ InitScoreVars

NextText ==
  \/ \E leaf \in 0..(MaxLeavesText - 1) : \E a \in SplitArgs : Split(leaf, a)
  \/ ToStringCall
  \/ \E drop \in DOMAIN Key \cup {"none"} :
       \E extra \in ExtraLines \cup {NoLine} :
         \E atEnd \in BOOLEAN : FromString(drop, extra, atEnd)

SpecText == InitText /\ [][NextText]_vars

\* The trees that are scored, each with the calls that made it: a fresh
\* tree, and trees grown from it by Split.
ArgsOn(f) == CHOOSE a \in SplitArgs : a.feature = f

Constructed(max_leaves) ==
  [ tree |-> NewTree(max_leaves), nsplits |-> 0, before |-> NewTree(max_leaves),
    call |-> [op |-> "Tree"], ret |-> 0 ]

AfterSplit(st, leaf, a) ==
  [ tree |-> SplitTree(st.tree, leaf, a), nsplits |-> st.nsplits + 1,
    before |-> st.tree, call |-> [op |-> "Split", leaf |-> leaf, args |-> a],
    ret |-> SplitReturn(st.tree, leaf, a) ]

ScoredTrees ==
  LET one == AfterSplit(Constructed(3), 0, ArgsOn(0))
  IN  { Constructed(3),
        one,
        AfterSplit(one, 0, ArgsOn(1)),
        AfterSplit(one, 1, ArgsOn(1)) }

InitScore ==
  /\ \E st \in ScoredTrees :
       /\ tree = st.tree
       /\ nsplits = st.nsplits
       /\ before = st.before
       /\ call = st.call
       /\ ret = st.ret
  /\ InitScoreVars

NextScore ==
  \/ \E num_data \in 1..NumData : \E cuts \in SUBSET (1..(num_data - 1)) :
       AddPredictionToScoreAll(num_data, cuts)
  \/ \E n \in 1..NumData : \E used \in [0..(n - 1) -> Rows] :
       \E cuts \in SUBSET (1..(n - 1)) : AddPredictionToScoreUsed(used, cuts)
  \/ \E c \in 1..NumData : ChunkLoad(c)
  \/ \E c \in 1..NumData : ChunkStore(c)
  \/ ScoreReturn

SpecScore == InitScore /\ [][NextScore]_vars

----------------------------------------------------------------------------
(* Properties of growth. *)

\* the last call was Split, on a leaf of the tree as it then was
SplitDone == call.op = "Split"

\* an internal node's slot has been written by some Split: its right child
\* is then a leaf other than leaf 0, or an internal node other than node 0
Populated(t, j) == t.right_child_[j] # 0

\* C1: after n valid Split calls num_leaves is 1 + n, and the populated
\* internal nodes are exactly the num_leaves - 1 indices 0 .. num_leaves-2;
\* a fresh tree has one leaf and no internal node.
C1_LeafCount ==
  /\ tree.num_leaves_ = 1 + nsplits
  /\ {j \in DOMAIN tree.right_child_ : Populated(tree, j)} = Internals(tree)
  /\ Cardinality({j \in DOMAIN tree.right_child_ : Populated(tree, j)})
       = tree.num_leaves_ - 1
  /\ nsplits = 0 => tree.num_leaves_ = 1 /\ Internals(tree) = {}

C1_Witness == nsplits = 3 /\ tree.num_leaves_ = 4 /\ tree.max_leaves_ = 4

\* C2: a valid Split(leaf, ...) made when num_leaves = k returns k, makes
\* node k-1 with left child ~leaf and right child ~k, sets the parent of
\* leaf and of k to k-1 and the depth of both to leaf's old depth plus one.
C2_SplitLinks ==
  SplitDone =>
    LET k == before.num_leaves_
        leaf == call.leaf
    IN  /\ ret = k
        /\ tree.left_child_[k - 1] = Compl(leaf)
        /\ tree.left_child_[k - 1] = -(leaf + 1)
        /\ tree.right_child_[k - 1] = Compl(k)
        /\ tree.leaf_parent_[leaf] = k - 1
        /\ tree.leaf_parent_[k] = k - 1
        /\ tree.leaf_depth_[leaf] = before.leaf_depth_[leaf] + 1
        /\ tree.leaf_depth_[k] = before.leaf_depth_[leaf] + 1
        /\ k = 1 => /\ tree.num_leaves_ = 2
                    /\ tree.left_child_[0] = -1
                    /\ tree.right_child_[0] = -2
                    /\ tree.leaf_parent_[0] = 0
                    /\ tree.leaf_parent_[1] = 0

C2_Witness ==
  /\ SplitDone
  /\ before.num_leaves_ = 3
  /\ call.leaf = 1
  /\ before.leaf_depth_[call.leaf] = 2

\* the child fields of t, as <<node, side>> pairs, that hold reference v
ChildFieldsHolding(t, v) ==
  {<<p, "left">> : p \in {q \in Internals(t) : t.left_child_[q] = v}}
    \cup {<<p, "right">> : p \in {q \in Internals(t) : t.right_child_[q] = v}}

\* C8: with num_leaves >= 2, every leaf L is held as ~L by exactly one child
\* field, a field of leaf_parent[L]; every internal node but 0 is held by
\* exactly one child field, of a node with a smaller index; node 0 by none;
\* and a Split of a leaf with a parent changes exactly one of that parent's
\* child fields, the one that held ~leaf, to the new node's index.
C8_BinaryTree ==
  /\ tree.num_leaves_ >= 2 =>
       /\ \A L \in Leaves(tree) :
            /\ Cardinality(ChildFieldsHolding(tree, Compl(L))) = 1
            /\ \A f \in ChildFieldsHolding(tree, Compl(L)) :
                 f[1] = tree.leaf_parent_[L]
       /\ \A j \in Internals(tree) \ {0} :
            /\ Cardinality(ChildFieldsHolding(tree, j)) = 1
            /\ \A f \in ChildFieldsHolding(tree, j) : f[1] < j
       /\ ChildFieldsHolding(tree, 0) = {}
  /\ (SplitDone /\ before.leaf_parent_[call.leaf] >= 0) =>
       LET p == before.leaf_parent_[call.leaf]
           new == before.num_leaves_ - 1
           leftHeld == before.left_child_[p] = Compl(call.leaf)
           rightHeld == before.right_child_[p] = Compl(call.leaf)
       IN  /\ leftHeld # rightHeld
           /\ leftHeld => /\ tree.left_child_[p] = new
                          /\ tree.right_child_[p] = before.right_child_[p]
           /\ rightHeld => /\ tree.right_child_[p] = new
                           /\ tree.left_child_[p] = before.left_child_[p]

C8_Witness ==
  /\ SplitDone
  /\ before.leaf_parent_[call.leaf] >= 0
  /\ before.right_child_[before.leaf_parent_[call.leaf]] = Compl(call.leaf)
  /\ tree.num_leaves_ = 4

\* what Split does to the values and counts of the two leaves
SplitLeafValuesSet ==
  LET k == before.num_leaves_
  IN  /\ tree.leaf_value_[call.leaf] = call.args.left_value
      /\ tree.leaf_count_[call.leaf] = call.args.left_cnt
      /\ tree.leaf_value_[k] = call.args.right_value
      /\ tree.leaf_count_[k] = call.args.right_cnt

\* C9 as stated: the new internal node records the split leaf's value and
\* its leaf_count as they were immediately before the call.
C9_AsClaimed ==
  SplitDone =>
    LET new == before.num_leaves_ - 1
    IN  /\ tree.internal_value_[new] = before.leaf_value_[call.leaf]
        /\ tree.internal_count_[new] = before.leaf_count_[call.leaf]
        /\ SplitLeafValuesSet

\* C9: the new internal node records the split leaf's value as it was
\* immediately before the call, and as its count the sum left_cnt +
\* right_cnt of the two counts passed in; the leaf then takes left_value and
\* left_cnt, the new leaf right_value and right_cnt.
C9_InternalRecord ==
  SplitDone =>
    LET new == before.num_leaves_ - 1
    IN  /\ tree.internal_value_[new] = before.leaf_value_[call.leaf]
        /\ tree.internal_count_[new] = call.args.left_cnt + call.args.right_cnt
        /\ SplitLeafValuesSet

C9_Witness ==
  /\ SplitDone
  /\ before.num_leaves_ >= 2
  /\ before.leaf_value_[call.leaf] # 0
  /\ call.args.left_cnt + call.args.right_cnt # before.leaf_count_[call.leaf]

\* C10: a valid Split made when num_leaves = k changes, of the internal
\* nodes j < k-1, nothing but the one child field of leaf's parent that held
\* ~leaf, and changes nothing of the leaves other than leaf and k.
C10_Frame ==
  SplitDone =>
    LET k == before.num_leaves_
        leaf == call.leaf
        p == before.leaf_parent_[leaf]
    IN  /\ \A j \in 0..(k - 2) :
             /\ tree.split_feature_[j] = before.split_feature_[j]
             /\ tree.split_feature_real_[j] = before.split_feature_real_[j]
             /\ tree.threshold_in_bin_[j] = before.threshold_in_bin_[j]
             /\ tree.threshold_[j] = before.threshold_[j]
             /\ tree.decision_type_[j] = before.decision_type_[j]
             /\ tree.split_gain_[j] = before.split_gain_[j]
             /\ tree.internal_value_[j] = before.internal_value_[j]
             /\ tree.internal_count_[j] = before.internal_count_[j]
             /\ ~(j = p /\ before.left_child_[j] = Compl(leaf)) =>
                  tree.left_child_[j] = before.left_child_[j]
             /\ ~(j = p /\ before.right_child_[j] = Compl(leaf)) =>
                  tree.right_child_[j] = before.right_child_[j]
        /\ \A L \in 0..(k - 1) \ {leaf} :
             /\ tree.leaf_parent_[L] = before.leaf_parent_[L]
             /\ tree.leaf_value_[L] = before.leaf_value_[L]
             /\ tree.leaf_count_[L] = before.leaf_count_[L]
             /\ tree.leaf_depth_[L] = before.leaf_depth_[L]

C10_Witness ==
  /\ SplitDone
  /\ before.num_leaves_ = 3
  /\ call.leaf = 2
  /\ before.leaf_parent_[call.leaf] = 1

----------------------------------------------------------------------------
(* Properties of batch scoring. *)

\* the row whose slot iteration i of the running call is to add to
RowOf(i) == IF job.overload = "all" THEN i ELSE job.used_data_indices[i]

\* the rows block c is to score, and those it has scored already
RowsOf(c) == {RowOf(i) : i \in chunks[c].start..(chunks[c].end - 1)}

RowsDoneBy(c) == {RowOf(i) : i \in chunks[c].start..(chunks[c].i - 1)}

\* the rows the running call is to score
RowsOfJob == UNION {RowsOf(c) : c \in DOMAIN chunks}

Added(r) == InitialScore(r) + tree.leaf_value_[GetLeaf(tree, r)]

\* C4: however the range is cut into blocks and however the blocks
\* interleave, no two blocks have a score slot in common, a row never asked
\* for keeps its score, a row whose iteration has run holds its initial score
\* plus leaf_value[GetLeaf(row)] and one whose iteration has not run holds
\* its initial score still; so when the calls have returned every scored row
\* holds initial score plus leaf value, whether the rows were scored by one
\* call or by two calls on disjoint subsets.
C4_ScoreAccumulates ==
  /\ \A c, d \in DOMAIN chunks : c # d => RowsOf(c) \cap RowsOf(d) = {}
  /\ \A r \in Rows \ scored : score[r] = InitialScore(r)
  /\ \A c \in DOMAIN chunks :
       /\ \A r \in RowsDoneBy(c) : score[r] = Added(r)
       /\ \A r \in RowsOf(c) \ RowsDoneBy(c) : score[r] = InitialScore(r)
  /\ \A r \in scored \ RowsOfJob : score[r] = Added(r)
  /\ job.overload = "none" => \A r \in scored : score[r] = Added(r)

C4_Witness ==
  /\ job.overload = "used"
  /\ job.used_data_indices[0] = 2
  /\ Len(chunks) = 2
  /\ chunks[1].pc = "store"
  /\ chunks[2].pc = "done"
  /\ scored = Rows
  /\ RowsOfJob # Rows
  /\ tree.num_leaves_ = 3
  /\ \E r \in RowsOfJob : GetLeaf(tree, r) = 2

----------------------------------------------------------------------------
(* Properties of the text format. *)

LoadDone == call.op = "Tree(str)"

\* vector a holds exactly the first n elements of vector b
SameUpTo(a, b, n) ==
  /\ DOMAIN a = 0..(n - 1)
  /\ \A i \in 0..(n - 1) : a[i] = b[i]

\* the loaded tree has the members of t that the format carries
SameTree(loaded, t) ==
  /\ loaded.status = "ok"
  /\ loaded.num_leaves_ = t.num_leaves_
  /\ SameUpTo(loaded.split_feature_real_, t.split_feature_real_, t.num_leaves_ - 1)
  /\ SameUpTo(loaded.split_gain_, t.split_gain_, t.num_leaves_ - 1)
  /\ SameUpTo(loaded.threshold_, t.threshold_, t.num_leaves_ - 1)
  /\ SameUpTo(loaded.decision_type_, t.decision_type_, t.num_leaves_ - 1)
  /\ SameUpTo(loaded.left_child_, t.left_child_, t.num_leaves_ - 1)
  /\ SameUpTo(loaded.right_child_, t.right_child_, t.num_leaves_ - 1)
  /\ SameUpTo(loaded.internal_value_, t.internal_value_, t.num_leaves_ - 1)
  /\ SameUpTo(loaded.internal_count_, t.internal_count_, t.num_leaves_ - 1)
  /\ SameUpTo(loaded.leaf_parent_, t.leaf_parent_, t.num_leaves_)
  /\ SameUpTo(loaded.leaf_value_, t.leaf_value_, t.num_leaves_)
  /\ SameUpTo(loaded.leaf_count_, t.leaf_count_, t.num_leaves_)

\* the constructor was given exactly what ToString returned for the tree
LoadedOwnText == LoadDone /\ call.str = TreeToString(tree)

\* C3 as stated: for a tree grown by N valid Split calls, N = 0 included,
\* Tree(ToString()) loads and has the same num_leaves and the same arrays.
C3_AsClaimed == LoadedOwnText => SameTree(ret, tree)

\* the round trip of a tree that has been split at least once
C3_RoundTripOfSplitTree ==
  (LoadedOwnText /\ tree.num_leaves_ >= 2) => SameTree(ret, tree)

\* the load of what ToString wrote for a tree that was never split
C3_UnsplitIsFatal ==
  (LoadedOwnText /\ tree.num_leaves_ = 1) => ret.status = "fatal"

\* the twelve keys the format requires
ClaimedKeys ==
  { "num_leaves", "split_feature", "split_gain", "threshold",
    "decision_type", "left_child", "right_child", "leaf_parent",
    "leaf_value", "leaf_count", "internal_value", "internal_count" }

C5_WitnessFatal ==
  /\ LoadDone
  /\ call.drop = "threshold"
  /\ call.extra = NoLine
  /\ tree.num_leaves_ = 3
  /\ ret.status = "fatal"

----------------------------------------------------------------------------
(* Properties of the JSON export. *)

JSONDone == call.op = "ToJSON"

\* C6 as stated: on a tree that was never split ToJSON emits the leaf object
\* of leaf 0 as tree_structure and reads no internal-node array.
C6_AsClaimed ==
  (JSONDone /\ tree.num_leaves_ = 1) =>
    /\ ret.tree_structure.kind = "leaf"
    /\ ret.tree_structure.leaf_index = 0
    /\ ret.tree_structure.leaf_parent = -1
    /\ SplitIndexSeq(ret.tree_structure) = <<>>

\* s lists every element of S exactly once
ListsOnce(s, S) == Len(s) = Cardinality(S) /\ Range(s) = S

\* C7: on a tree grown by one or more valid Split calls the recursion
\* NodeToJSON(0) returns, having emitted one internal-node object per index
\* in [0, num_leaves-1) and one leaf object per leaf id in [0, num_leaves),
\* the root being node 0; after a single split the root's children are the
\* leaf objects of leaf 0 and leaf 1.
C7_JSONCovers ==
  (JSONDone /\ tree.num_leaves_ >= 2) =>
    LET root == ret.tree_structure
    IN  /\ ret.num_leaves = tree.num_leaves_
        /\ Completed(root)
        /\ root.kind = "node"
        /\ root.split_index = 0
        /\ ListsOnce(SplitIndexSeq(root), Internals(tree))
        /\ ListsOnce(LeafIndexSeq(root), Leaves(tree))
        /\ tree.num_leaves_ = 2 =>
             /\ root.left_child.kind = "leaf"
             /\ root.left_child.leaf_index = 0
             /\ root.right_child.kind = "leaf"
             /\ root.right_child.leaf_index = 1

C7_Witness ==
  /\ JSONDone
  /\ tree.num_leaves_ = 4
  /\ ret.tree_structure.right_child.kind = "node"
  /\ ret.tree_structure.right_child.left_child.kind = "node"

====
